---- MODULE Spec2Model ----
(***************************************************************************)
(* Tool-orchestration layer of the MCP Slack connector.                    *)
(*                                                                         *)
(* Two service classes are modelled:                                       *)
(*   EnhancedMCPService (pages/admin.tsx)  - provider registry, discovery, *)
(*                                           provider-owned tools          *)
(*   MCPService         (src/lib/mcp.ts)   - tool registry with built-ins, *)
(*                                           register/update/delete/execute*)
(*                                                                         *)
(* JavaScript runs one callback at a time; a pending call yields only at   *)
(* an outbound network request (axios.get / axios.post).  Every action     *)
(* below is therefore one run-to-completion segment of a handler: from its *)
(* start, or from the arrival of a network reply, up to the next network   *)
(* request or to its return.                                               *)
(***************************************************************************)
EXTENDS Integers, Sequences, FiniteSets, TLC

\* ---------------------------------------------------------------- bounds
MaxServers == 2   \* provider ids generateServerId hands out
MaxTasks   == 2   \* calls of EnhancedMCPService pending on the network
MaxOps     == 4   \* calls made to EnhancedMCPService
MaxGen     == 1   \* tool ids generateToolId hands out
MaxCalls   == 1   \* executeTool calls pending on the network
MaxToolOps == 4   \* calls made to MCPService
MaxCandidates == 2   \* tools in the list handed to processMessage

\* ------------------------------------------------------------ JS values
Undef == "undefined"
Null  == "null"
NoDate == -1   \* a Date | null field holding null

\* !v of JavaScript for the string-or-absent values used here
Falsy(v) == v = Undef \/ v = Null \/ v = ""

\* Array.prototype.includes
Includes(arr, v) == \E i \in 1..Len(arr) : arr[i] = v

\* Map.set on an insertion-ordered Map of records keyed by their id:
\* an existing key keeps its position, a new key is appended.
MapSet(m, rec) ==
    IF \E i \in 1..Len(m) : m[i].id = rec.id
    THEN [i \in 1..Len(m) |-> IF m[i].id = rec.id THEN rec ELSE m[i]]
    ELSE Append(m, rec)

MapHas(m, id) == \E i \in 1..Len(m) : m[i].id = id

MapGet(m, id) == m[CHOOSE i \in 1..Len(m) : m[i].id = id]

MapDelete(m, id) == SelectSeq(m, LAMBDA r : r.id # id)

Range(s) == {s[i] : i \in 1..Len(s)}

\* ------------------------------------------------- the provider's world
\* JSON values, tagged with their JavaScript type
Str(v) == [t |-> "string", v |-> v]
Num(v) == [t |-> "number", v |-> v]

\* inputSchema values of MCPToolDefinition
SchemaQuery ==
    [type |-> "object",
     properties |-> [query |-> [type |-> "string"]],
     required |-> <<"query">>]

SchemaOp ==
    [type |-> "object",
     properties |-> [op |-> [type |-> "string", enum |-> <<"add", "sub">>],
                     n  |-> [type |-> "number"]],
     required |-> <<"op">>]

\* MCPToolDefinition values a provider may list
DefSearch  == [name |-> "search", description |-> "d1", inputSchema |-> SchemaQuery]
DefSearch2 == [name |-> "search", description |-> "d2", inputSchema |-> SchemaQuery]
DefCalc    == [name |-> "calc",   description |-> "d1", inputSchema |-> SchemaOp]

\* a null element of result.tools: reading its name throws a TypeError
NullDef == [null |-> TRUE]

\* result.tools of a tools/list success reply
ToolLists == {<<DefSearch>>, <<DefSearch2, DefCalc>>, <<DefSearch2, NullDef>>}

\* What the network gives back to axios.get(endpoint/health)
ProbeReplies == {"ok", "fail"}

\* What the network gives back to axios.post(endpoint, tools/list)
ListReplies ==
    {[kind |-> "result", tools |-> l] : l \in ToolLists}
      \cup {[kind |-> "error"], [kind |-> "transport"]}

\* What the network gives back to axios.post(endpoint, tools/call)
CallReplies ==
    {[kind |-> "result", result |-> "payload"],
     [kind |-> "error", message |-> "quota exceeded"],
     [kind |-> "transport"]}

VARIABLES
    servers,     \* EnhancedMCPService.servers : id -> MCPServer
    tools,       \* EnhancedMCPService.tools   : insertion-ordered Map of MCPTool
    toolCache,   \* EnhancedMCPService.toolCache : tool id -> cached callable
    tasks,       \* calls of EnhancedMCPService suspended on the network
    nextServer,  \* number of ids generateServerId has handed out
    applied,     \* history: provider id -> tool list of its last applied discovery
    issued,      \* number of calls made so far
    last,        \* the step just taken by EnhancedMCPService and its result
    mtools,      \* MCPService.tools : insertion-ordered Map of MCPTool
    nextTool,    \* number of ids generateToolId has handed out
    calls,       \* executeTool calls suspended on the network
    missued,     \* number of calls made to MCPService so far
    mlast,       \* the step just taken by MCPService and its result
    turn,        \* the last processMessage call of AIService and its result
    discoverRouteServers, \* servers of the EnhancedMCPService of the discover route
    zod          \* a tool, an input, and the signature translated from its schema

evars == <<servers, tools, toolCache, tasks, nextServer, applied, issued, last>>
mvars == <<mtools, nextTool, calls, missued, mlast>>
fvars == <<turn>>
vars  == <<servers, tools, toolCache, tasks, nextServer, applied, issued, last,
           mtools, nextTool, calls, missued, mlast, turn, discoverRouteServers,
           zod>>

Idle == [kind |-> "idle"]
None == [op |-> "none"]

\* ================================================== EnhancedMCPService

\* new Date(): the wall clock is read in units of calls made, so a later call
\* never reads an earlier time than the calls before it
Now == issued

generateServerId(n) == "server_" \o ToString(n)

ServerIds == {generateServerId(n) : n \in 1..MaxServers}

FreeTask == {t \in 1..MaxTasks : tasks[t].kind = "idle"}

\* the lowest free slot, so that equal sets of pending calls are one state
NewTask == CHOOSE t \in FreeTask : \A u \in FreeTask : t <= u

\* The MCPServer object stored under sid has been replaced or deleted:
\* every pending discovery that obtained the old object from servers.get
\* now holds an object that is no longer in the Map.
MarkStale(ts, sid) ==
    [t \in DOMAIN ts |->
        IF ts[t].kind \in {"discover", "update"} /\ ts[t].pc = "list" /\ ts[t].sid = sid
        THEN [ts[t] EXCEPT !.stale = TRUE]
        ELSE IF ts[t].kind = "refresh"
        THEN [ts[t] EXCEPT !.pending =
                 [s \in DOMAIN ts[t].pending |->
                     IF s = sid THEN [ts[t].pending[s] EXCEPT !.stale = TRUE]
                                ELSE ts[t].pending[s]]]
        ELSE ts[t]]

\* servers.set(sid, obj) / servers.delete(sid) as functions
ServersSet(m, sid, obj) ==
    [s \in DOMAIN m \cup {sid} |-> IF s = sid THEN obj ELSE m[s]]

ServersDelete(m, sid) == [s \in DOMAIN m \ {sid} |-> m[s]]

\* connectToMCPServer reporting an unsupported type as a failed probe
ConnectErrorAsProbe(ct) == "HTTP connection failed"

\* connectToMCPServer for the connection types that throw without a request
ConnectError(ct) ==
    CASE ct = "websocket" -> "WebSocket connection not implemented yet"
      [] ct = "stdio"     -> "STDIO connection not implemented yet"
      [] OTHER            -> "Unsupported connection type"

HttpConnectError == "HTTP connection failed"

NotFoundError(sid) == "MCP server " \o sid \o " not found"

SendError(ct) == "Sending requests via " \o ct \o " not implemented yet"

\* the message of the error performToolDiscovery ends with, per reply
ListError(reply) ==
    IF reply.kind = "error" THEN "MCP tool discovery error"
    ELSE IF reply.kind = "result" THEN "Cannot read properties of null"
    ELSE "Network Error"

\* createToolFromDefinition storing the tool disabled
createToolFromDefinitionDisabled(toolDef, serverId) ==
    [id          |-> serverId \o "_" \o toolDef.name,
     name        |-> toolDef.name,
     description |-> toolDef.description,
     enabled     |-> FALSE,
     serverId    |-> serverId,
     schema      |-> toolDef.inputSchema,
     channels    |-> << >>]

\* createToolFromDefinition with the time of creation in the identifier
createToolFromDefinitionTimed(toolDef, serverId) ==
    [id          |-> serverId \o "_" \o toolDef.name \o "_" \o ToString(issued),
     name        |-> toolDef.name,
     description |-> toolDef.description,
     enabled     |-> TRUE,
     serverId    |-> serverId,
     schema      |-> toolDef.inputSchema,
     channels    |-> << >>]

createToolFromDefinition(toolDef, serverId) ==
    [id          |-> serverId \o "_" \o toolDef.name,
     name        |-> toolDef.name,
     description |-> toolDef.description,
     enabled     |-> TRUE,
     serverId    |-> serverId,
     schema      |-> toolDef.inputSchema,
     channels    |-> << >>]

\* the for loop of discoverMCPTools replacing the tools of the provider by
\* those discovered
CreateAllReplacing(m, defs, serverId) ==
    SelectSeq(m, LAMBDA tool : tool.serverId # serverId)
        \o [i \in 1..Len(defs) |-> createToolFromDefinition(defs[i], serverId)]

\* the for loop of discoverMCPTools over the discovered definitions
RECURSIVE CreateAll(_, _, _)
CreateAll(m, defs, serverId) ==
    IF defs = << >> THEN m
    ELSE CreateAll(MapSet(m, createToolFromDefinition(Head(defs), serverId)),
                   Tail(defs), serverId)

\* the for loop throws: createToolFromDefinition reads toolDef.name
LoopThrows(defs) == \E i \in 1..Len(defs) : defs[i] = NullDef

\* the definitions the for loop has gone through when it ends or throws
Created(defs) ==
    IF LoopThrows(defs)
    THEN SubSeq(defs, 1, (CHOOSE i \in 1..Len(defs) :
                             /\ defs[i] = NullDef
                             /\ \A j \in 1..(i - 1) : defs[j] # NullDef) - 1)
    ELSE defs

\* the try block of discoverMCPTools runs to its end
DiscoverOk(reply) == reply.kind = "result" /\ ~LoopThrows(reply.tools)

\* discoverMCPTools, try block after performToolDiscovery returned defs.
\* `stale` tells whether the object obtained from servers.get is still the
\* one in the Map; writes to an object that left the Map are not seen again.
DiscoverSuccessServers(sid, stale, defs) ==
    IF stale THEN servers
    ELSE [servers EXCEPT ![sid].discoveredTools = defs,
                         ![sid].lastDiscovery = Now]

\* discoverMCPTools when the for loop throws: the writes of the try block
\* before the loop, then the catch block
DiscoverPartialServers(sid, stale, defs, msg) ==
    IF stale THEN servers
    ELSE [servers EXCEPT ![sid].discoveredTools = defs,
                         ![sid].lastDiscovery = Now,
                         ![sid].connectionStatus = "error",
                         ![sid].error = "Tool discovery failed: " \o msg]

\* the history of applied discoveries after a loop that threw: the tools no
\* longer are what the last applied discovery listed
Unapplied(sid) == [s \in DOMAIN applied \ {sid} |-> applied[s]]

\* discoverMCPTools, catch block
DiscoverFailureServers(sid, stale, msg) ==
    IF stale THEN servers
    ELSE [servers EXCEPT ![sid].connectionStatus = "error",
                         ![sid].error = "Tool discovery failed: " \o msg]

\* getToolsForChannel without the test of tool.enabled
getToolsForChannelAnyState(m, channelId) ==
    SelectSeq(m, LAMBDA tool :
        Len(tool.channels) = 0 \/ Includes(tool.channels, channelId))

\* getToolsForChannel of either class
getToolsForChannel(m, channelId) ==
    SelectSeq(m, LAMBDA tool :
        tool.enabled = TRUE
          /\ (Len(tool.channels) = 0 \/ Includes(tool.channels, channelId)))

\* how a tools/call round trip ends: "ok", or the message of the error thrown
CallOutcome(reply) ==
    CASE reply.kind = "result" -> "ok"
      [] reply.kind = "error"  -> "MCP tool error: " \o reply.message
      [] OTHER                 -> "Network Error"

\* ---------------------------------------------------------------- add
AddInputs ==
    [endpoint : {"https://a"}, apiKey : {Undef}, connectionType : {"websocket", "stdio", Undef}]

NewServer(serverData) ==
    [id               |-> generateServerId(nextServer + 1),
     endpoint         |-> serverData.endpoint,
     apiKey           |-> serverData.apiKey,
     enabled          |-> TRUE,
     connectionType   |-> IF Falsy(serverData.connectionType) THEN "http"
                          ELSE serverData.connectionType,
     discoveredTools  |-> << >>,
     lastDiscovery    |-> NoDate,
     connectionStatus |-> "disconnected",
     error            |-> Undef]

\* the catch block of addMCPServer without the assignment of the status
AddCaughtNoStatus(server, msg) == [server EXCEPT !.error = msg]

\* addMCPServer, catch block: the failure is recorded on the new object
AddCaught(server, msg) ==
    [server EXCEPT !.connectionStatus = "error", !.error = msg]

\* addMCPServer up to the request of connectHTTP; a connection type without
\* an implementation throws at once and the call runs to its end.
AddStart(serverData) ==
    LET server == NewServer(serverData) IN
    /\ nextServer < MaxServers
    /\ nextServer' = nextServer + 1
    /\ issued < MaxOps
    /\ issued' = issued + 1
    /\ IF server.connectionType = "http"
       THEN /\ FreeTask # {}
            /\ tasks' = [tasks EXCEPT ![NewTask] =
                            [kind |-> "add", pc |-> "probe", server |-> server,
                             to |-> server.endpoint]]
            /\ servers' = servers
            /\ last' = [op |-> "addStart", sid |-> server.id]
       ELSE /\ servers' = ServersSet(servers, server.id,
                             AddCaught(server, ConnectError(server.connectionType)))
            /\ tasks' = MarkStale(tasks, server.id)
            /\ last' = [op |-> "add", sid |-> server.id, probe |-> "unsupported"]
    /\ UNCHANGED <<tools, toolCache, applied>>

\* addMCPServer from the reply of the reachability probe to its return.
\* After a good probe it calls discoverMCPTools(server.id) before the
\* record is stored: servers.get(server.id) answers undefined for the fresh
\* id (FreshServerId), discoverMCPTools throws not-found and the catch
\* block records it.
AddProbeReply(t, reply) ==
    LET server == tasks[t].server
        msg == IF reply = "fail" THEN HttpConnectError
               ELSE NotFoundError(server.id)
        stored == AddCaught(server, msg)
    IN
    /\ tasks[t].kind = "add"
    /\ server.id \notin DOMAIN servers
    /\ servers' = ServersSet(servers, server.id, stored)
    /\ tasks' = MarkStale([tasks EXCEPT ![t] = Idle], server.id)
    /\ last' = [op |-> "add", sid |-> server.id, probe |-> reply]
    /\ UNCHANGED <<tools, toolCache, nextServer, applied, issued>>

\* ------------------------------------------------------------- delete
\* the filter of deleteMCPServer taking every tool that has a provider
ServerToolsOfAny(m, serverId) == SelectSeq(m, LAMBDA tool : tool.serverId # Undef)

\* Array.from(this.tools.values()).filter(tool => tool.config.serverId === serverId)
ServerTools(m, serverId) == SelectSeq(m, LAMBDA tool : tool.serverId = serverId)

deleteMCPServer(serverId) ==
    /\ issued < MaxOps
    /\ issued' = issued + 1
    /\ IF serverId \notin DOMAIN servers
       THEN /\ last' = [op |-> "delete", sid |-> serverId, outcome |-> "notFound",
                        removed |-> 0]
            /\ UNCHANGED <<servers, tools, toolCache, tasks, nextServer, applied>>
       ELSE LET serverTools == ServerTools(tools, serverId)
                gone == {serverTools[i].id : i \in 1..Len(serverTools)}
            IN
            /\ tools' = SelectSeq(tools, LAMBDA tool : tool.id \notin gone)
            /\ toolCache' = [id \in DOMAIN toolCache \ gone |-> toolCache[id]]
            /\ servers' = ServersDelete(servers, serverId)
            /\ tasks' = MarkStale(tasks, serverId)
            /\ applied' = [s \in DOMAIN applied \ {serverId} |-> applied[s]]
            /\ last' = [op |-> "delete", sid |-> serverId, outcome |-> "deleted",
                         removed |-> Len(serverTools)]
            /\ UNCHANGED nextServer

\* ----------------------------------------------------------- discover
\* servers.get finding only a provider that is enabled
ServerFoundEnabled(serverId) ==
    serverId \in DOMAIN servers /\ servers[serverId].enabled = TRUE

\* const server = this.servers.get(serverId); if (!server) throw ...
ServerFound(serverId) == serverId \in DOMAIN servers

\* what a step of discoverMCPTools reports: who called it, for which
\* provider, how it ended, whether the object it worked on had left the
\* Map, and whether the reply listed what the provider's last applied
\* discovery had listed
DiscoverStep(via, sid, outcome, stale, reply) ==
    [op |-> "discover", via |-> via, sid |-> sid, outcome |-> outcome,
     stale |-> stale,
     again |-> /\ reply.kind = "result"
               /\ sid \in DOMAIN applied
               /\ applied[sid] = reply.tools]

NoReply == [kind |-> "none"]

\* discoverMCPTools(serverId) called on this instance, up to the tools/list
\* request; sendMCPRequest throws at once for a connection
\* type other than http and the catch block runs.
DiscoverStart(sid) ==
    /\ issued < MaxOps
    /\ issued' = issued + 1
    /\ UNCHANGED <<tools, toolCache, nextServer, applied>>
    /\ IF ~ServerFound(sid)
       THEN /\ last' = DiscoverStep("api", sid, "notFound", FALSE, NoReply)
            /\ UNCHANGED <<servers, tasks>>
       ELSE IF servers[sid].connectionType = "http"
       THEN /\ FreeTask # {}
            /\ tasks' = [tasks EXCEPT ![NewTask] =
                           [kind |-> "discover", pc |-> "list", sid |-> sid,
                            stale |-> FALSE, to |-> servers[sid].endpoint]]
            /\ last' = [op |-> "discoverStart", sid |-> sid]
            /\ UNCHANGED servers
       ELSE /\ servers' = DiscoverFailureServers(sid, FALSE,
                              SendError(servers[sid].connectionType))
            /\ last' = DiscoverStep("api", sid, "unsupported", FALSE, NoReply)
            /\ UNCHANGED tasks

\* discoverMCPTools from the tools/list reply to its return (or rethrow)
DiscoverListReply(t, reply) ==
    LET sid == tasks[t].sid
        stale == tasks[t].stale
    IN
    /\ tasks[t].kind = "discover"
    /\ tasks' = [tasks EXCEPT ![t] = Idle]
    /\ UNCHANGED <<nextServer, issued>>
    /\ IF DiscoverOk(reply)
       THEN /\ servers' = DiscoverSuccessServers(sid, stale, reply.tools)
            /\ tools' = CreateAll(tools, reply.tools, sid)
            /\ toolCache' = << >>
            /\ applied' = ServersSet(applied, sid, reply.tools)
            /\ last' = DiscoverStep("api", sid, "ok", stale, reply)
       ELSE IF reply.kind = "result"
       THEN /\ servers' = DiscoverPartialServers(sid, stale, reply.tools,
                                                 ListError(reply))
            /\ tools' = CreateAll(tools, Created(reply.tools), sid)
            /\ applied' = Unapplied(sid)
            /\ last' = DiscoverStep("api", sid, "failed", stale, reply)
            /\ UNCHANGED toolCache
       ELSE /\ servers' = DiscoverFailureServers(sid, stale, ListError(reply))
            /\ last' = DiscoverStep("api", sid, "failed", stale, reply)
            /\ UNCHANGED <<tools, toolCache, applied>>

\* ------------------------------------------------------------- update
\* Partial<MCPServer> payloads of the PUT handler (req.body is passed on
\* as it comes)
UpdateInputs ==
    {[enabled |-> FALSE], [endpoint |-> "https://b"], [apiKey |-> "k1"],
     [apiKey |-> ""], [connectionType |-> "websocket"],
     [connectionStatus |-> "connected"], [id |-> "server_x"]}

\* updates.f, undefined when the payload has no field f
Field(updates, f) == IF f \in DOMAIN updates THEN updates[f] ELSE Undef

\* { ...server, ...updates }
Merge(server, updates) ==
    [f \in DOMAIN server \cup DOMAIN updates |->
        IF f \in DOMAIN updates THEN updates[f] ELSE server[f]]

\* if (updates.endpoint || updates.apiKey || updates.connectionType)
Reconnects(updates) ==
    \/ ~Falsy(Field(updates, "endpoint"))
    \/ ~Falsy(Field(updates, "apiKey"))
    \/ ~Falsy(Field(updates, "connectionType"))

\* updateMCPServer: the catch block, then servers.set and return
UpdateFailed(sid, updated, msg, base, how) ==
    /\ servers' = ServersSet(base, sid,
                     Merge(updated, [connectionStatus |-> "error", error |-> msg]))
    /\ last' = [op |-> "update", sid |-> sid, outcome |-> how, reconnect |-> TRUE]

\* updateMCPServer up to the request of connectHTTP, or to its return when
\* no request is made
UpdateStart(sid, updates) ==
    /\ issued < MaxOps
    /\ issued' = issued + 1
    /\ UNCHANGED <<tools, toolCache, nextServer, applied>>
    /\ IF sid \notin DOMAIN servers
       THEN /\ last' = [op |-> "update", sid |-> sid, outcome |-> "notFound",
                        reconnect |-> FALSE]
            /\ UNCHANGED <<servers, tasks>>
       ELSE LET updated == Merge(servers[sid], updates) IN
            IF ~Reconnects(updates)
            THEN /\ servers' = ServersSet(servers, sid, updated)
                 /\ tasks' = MarkStale(tasks, sid)
                 /\ last' = [op |-> "update", sid |-> sid, outcome |-> "stored",
                             reconnect |-> FALSE]
            ELSE IF updated.connectionType = "http"
            THEN /\ FreeTask # {}
                 /\ tasks' = [tasks EXCEPT ![NewTask] =
                                [kind |-> "update", pc |-> "probe", sid |-> sid,
                                 updates |-> updates,
                                 updated |-> updated, stale |-> FALSE,
                                 to |-> updated.endpoint]]
                 /\ last' = [op |-> "updateStart", sid |-> sid]
                 /\ UNCHANGED servers
            ELSE /\ UpdateFailed(sid, updated, ConnectError(updated.connectionType),
                                 servers, "unsupported")
                 /\ tasks' = MarkStale(tasks, sid)

\* updateMCPServer from the reply of the reachability probe: on a good
\* probe discoverMCPTools(serverId) looks the id up again and sends
\* tools/list for the object that is in the Map now
UpdateProbeReply(t, reply) ==
    LET sid == tasks[t].sid
        updated == tasks[t].updated
    IN
    /\ tasks[t].kind = "update"
    /\ tasks[t].pc = "probe"
    /\ UNCHANGED <<tools, toolCache, nextServer, applied, issued>>
    /\ IF reply = "fail"
       THEN /\ UpdateFailed(sid, updated, HttpConnectError, servers, "probeFailed")
            /\ tasks' = MarkStale([tasks EXCEPT ![t] = Idle], sid)
       ELSE IF sid \notin DOMAIN servers
       THEN /\ UpdateFailed(sid, updated, NotFoundError(sid), servers, "notFound")
            /\ tasks' = MarkStale([tasks EXCEPT ![t] = Idle], sid)
       ELSE IF servers[sid].connectionType = "http"
       THEN /\ tasks' = [tasks EXCEPT ![t] =
                           [@ EXCEPT !.pc = "list", !.stale = FALSE,
                                     !.to = servers[sid].endpoint]]
            /\ last' = [op |-> "updateProbed", sid |-> sid]
            /\ UNCHANGED servers
       ELSE /\ UpdateFailed(sid, updated, SendError(servers[sid].connectionType),
                   DiscoverFailureServers(sid, FALSE,
                       SendError(servers[sid].connectionType)), "unsupported")
            /\ tasks' = MarkStale([tasks EXCEPT ![t] = Idle], sid)

\* updateMCPServer from the tools/list reply of its discoverMCPTools call
\* to its return
UpdateListReply(t, reply) ==
    LET sid == tasks[t].sid
        updated == tasks[t].updated
        stale == tasks[t].stale
    IN
    /\ tasks[t].kind = "update"
    /\ tasks[t].pc = "list"
    /\ tasks' = MarkStale([tasks EXCEPT ![t] = Idle], sid)
    /\ UNCHANGED <<nextServer, issued>>
    /\ IF DiscoverOk(reply)
       THEN /\ servers' = ServersSet(DiscoverSuccessServers(sid, stale, reply.tools),
                             sid, Merge(updated, [connectionStatus |-> "connected",
                                                  error |-> Undef]))
            /\ tools' = CreateAll(tools, reply.tools, sid)
            /\ toolCache' = << >>
            /\ applied' = ServersSet(applied, sid, reply.tools)
            /\ last' = [op |-> "update", sid |-> sid, outcome |-> "connected",
                        reconnect |-> TRUE]
       ELSE IF reply.kind = "result"
       THEN /\ UpdateFailed(sid, updated, ListError(reply),
                   DiscoverPartialServers(sid, stale, reply.tools, ListError(reply)),
                   "listFailed")
            /\ tools' = CreateAll(tools, Created(reply.tools), sid)
            /\ applied' = Unapplied(sid)
            /\ UNCHANGED toolCache
       ELSE /\ UpdateFailed(sid, updated, ListError(reply),
                   DiscoverFailureServers(sid, stale, ListError(reply)), "listFailed")
            /\ UNCHANGED <<tools, toolCache, applied>>

\* ------------------------------------------------------------ refresh
\* refreshAllMCPServers up to the point where every discovery it started
\* is waiting for its tools/list reply.  A discovery over a connection type
\* other than http has failed by then (its catch block has run and the
\* callback has logged the error); with nothing left to wait for,
\* Promise.allSettled resolves and the call returns.
\* refreshAllMCPServers without the filter on enabled
RefreshTargetsAll(m) == DOMAIN m

\* Array.from(this.servers.values()).filter(s => s.enabled)
RefreshTargets(m) == {s \in DOMAIN m : m[s].enabled = TRUE}

RefreshStart ==
    LET targets == RefreshTargets(servers)
        waiting == {s \in targets : servers[s].connectionType = "http"}
        results == [s \in targets \ waiting |-> "failed"]
    IN
    /\ issued < MaxOps
    /\ issued' = issued + 1
    /\ servers' = [s \in DOMAIN servers |->
                     IF s \in targets \ waiting
                     THEN [servers[s] EXCEPT
                              !.connectionStatus = "error",
                              !.error = "Tool discovery failed: "
                                          \o SendError(servers[s].connectionType)]
                     ELSE servers[s]]
    /\ IF waiting = {}
       THEN /\ tasks' = tasks
            /\ last' = [op |-> "refresh", targets |-> targets, returned |-> TRUE,
                        results |-> results]
       ELSE /\ FreeTask # {}
            /\ tasks' = [tasks EXCEPT ![NewTask] =
                           [kind |-> "refresh", results |-> results,
                            pending |-> [s \in waiting |->
                                [stale |-> FALSE, to |-> servers[s].endpoint]]]]
            /\ last' = [op |-> "refresh", targets |-> targets, returned |-> FALSE,
                        results |-> results]
    /\ UNCHANGED <<tools, toolCache, nextServer, applied>>

\* what a discovery step of refreshAllMCPServers reports: the discovery
\* step, whether refreshAllMCPServers returned with it, and how each
\* discovery it started has ended so far
RefreshStep(sid, outcome, stale, reply, returned, results) ==
    Merge(DiscoverStep("refresh", sid, outcome, stale, reply),
          [returned |-> returned, results |-> results])

\* One discovery of refreshAllMCPServers, from its tools/list reply to the
\* end of its callback; when it was the last one pending, Promise.allSettled
\* resolves and refreshAllMCPServers returns.
RefreshListReply(t, sid, reply) ==
    LET stale == tasks[t].pending[sid].stale
        rest == [s \in DOMAIN tasks[t].pending \ {sid} |-> tasks[t].pending[s]]
        returned == DOMAIN rest = {}
        outcome == IF DiscoverOk(reply) THEN "ok" ELSE "failed"
        results == ServersSet(tasks[t].results, sid, outcome)
    IN
    /\ tasks[t].kind = "refresh"
    /\ sid \in DOMAIN tasks[t].pending
    /\ tasks' = [tasks EXCEPT ![t] =
                    IF returned THEN Idle
                    ELSE [@ EXCEPT !.pending = rest, !.results = results]]
    /\ last' = RefreshStep(sid, outcome, stale, reply, returned, results)
    /\ UNCHANGED <<nextServer, issued>>
    /\ IF DiscoverOk(reply)
       THEN /\ servers' = DiscoverSuccessServers(sid, stale, reply.tools)
            /\ tools' = CreateAll(tools, reply.tools, sid)
            /\ toolCache' = << >>
            /\ applied' = ServersSet(applied, sid, reply.tools)
       ELSE IF reply.kind = "result"
       THEN /\ servers' = DiscoverPartialServers(sid, stale, reply.tools,
                                                 ListError(reply))
            /\ tools' = CreateAll(tools, Created(reply.tools), sid)
            /\ applied' = Unapplied(sid)
            /\ UNCHANGED toolCache
       ELSE /\ servers' = DiscoverFailureServers(sid, stale, ListError(reply))
            /\ UNCHANGED <<tools, toolCache, applied>>

\* ------------------------------------------------- schema translation
\* the entry without `if (propSchema.enum) stringSchema = z.enum(...)`
ZodFieldString(propSchema, optional) ==
    [kind |-> CASE propSchema.type = "string"  -> "string"
                [] propSchema.type = "number"  -> "number"
                [] propSchema.type = "boolean" -> "boolean"
                [] propSchema.type = "array"   -> "array"
                [] OTHER                       -> "any",
     values |-> << >>,
     optional |-> optional]

\* one entry of the shape convertJSONSchemaToZod builds: the zod type chosen
\* for the property, the values of a z.enum, and whether .optional() applies
ZodField(propSchema, optional) ==
    [kind |-> CASE propSchema.type = "string" ->
                       IF "enum" \in DOMAIN propSchema THEN "enum" ELSE "string"
                [] propSchema.type = "number"  -> "number"
                [] propSchema.type = "boolean" -> "boolean"
                [] propSchema.type = "array"   -> "array"
                [] OTHER                       -> "any",
     values |-> IF propSchema.type = "string" /\ "enum" \in DOMAIN propSchema
                THEN propSchema.enum ELSE << >>,
     optional |-> optional]

convertJSONSchemaToZod(jsonSchema) ==
    IF jsonSchema.type = "object"
    THEN LET properties == IF "properties" \in DOMAIN jsonSchema
                           THEN jsonSchema.properties ELSE << >>
             required == IF "required" \in DOMAIN jsonSchema
                         THEN jsonSchema.required ELSE << >>
         IN [kind |-> "object",
             shape |-> [key \in DOMAIN properties |->
                           ZodField(properties[key], ~Includes(required, key))]]
    ELSE [kind |-> "any"]

\* createZodSchemaFromMCP: the signature of a registered tool
createZodSchemaFromMCP(mcpTool) ==
    IF "schema" \notin DOMAIN mcpTool
    THEN [kind |-> "object",
          shape |-> [input |-> [kind |-> "any", values |-> << >>, optional |-> FALSE]]]
    ELSE convertJSONSchemaToZod(mcpTool.schema)

\* the signature accepts the input: every declared field is either absent
\* and optional (or of any type), or present with a value of its type
ZodAccepts(sig, input) ==
    \/ sig.kind = "any"
    \/ \A key \in DOMAIN sig.shape :
          LET field == sig.shape[key] IN
          IF key \notin DOMAIN input
          THEN field.optional \/ field.kind = "any"
          ELSE CASE field.kind = "string"  -> input[key].t = "string"
                 [] field.kind = "enum"    -> /\ input[key].t = "string"
                                              /\ Includes(field.values, input[key].v)
                 [] field.kind = "number"  -> input[key].t = "number"
                 [] field.kind = "boolean" -> input[key].t = "boolean"
                 [] field.kind = "array"   -> input[key].t = "array"
                 [] OTHER                  -> TRUE

\* ----------------------------------------------------- getVercelAITools
\* the tool({description, parameters, execute}) object built for mcpTool;
\* execute is the closure calling executeMCPTool(mcpTool.id, params)
VercelTool(mcpTool) ==
    [description |-> mcpTool.description,
     parameters  |-> createZodSchemaFromMCP(mcpTool),
     execute     |-> mcpTool.id]

\* channelId values of getVercelAITools
ChannelIds == {Undef, "C1"}

\* getVercelAITools: a cached callable is reused, the others are built and
\* cached; the record returned is keyed by tool name, so of two tools with
\* one name the later in the registry's order is returned
getVercelAITools(channelId) ==
    LET availableTools ==
            IF ~Falsy(channelId)
            THEN getToolsForChannel(tools, channelId)
            ELSE SelectSeq(tools, LAMBDA t : t.enabled = TRUE)
        ids == {availableTools[i].id : i \in 1..Len(availableTools)}
        cache == [id \in DOMAIN toolCache \cup ids |->
                     IF id \in DOMAIN toolCache THEN toolCache[id]
                     ELSE VercelTool(MapGet(tools, id))]
        names == {availableTools[i].name : i \in 1..Len(availableTools)}
        lastOf(n) == CHOOSE i \in 1..Len(availableTools) :
                        /\ availableTools[i].name = n
                        /\ \A j \in (i + 1)..Len(availableTools) :
                              availableTools[j].name # n
    IN
    /\ issued < MaxOps
    /\ issued' = issued + 1
    /\ toolCache' = cache
    /\ last' = [op |-> "getVercelAITools",
                vercelTools |-> [n \in names |-> cache[availableTools[lastOf(n)].id]]]
    /\ UNCHANGED <<servers, tools, tasks, nextServer, applied>>

\* inputSchema of one tool: an object with the one property `action`
ActionSchema(propSchema, required) ==
    Merge([type |-> "object", properties |-> [action |-> propSchema]], required)

\* the property schemas the translation tells apart
PropSchemas ==
    {[type |-> "string", enum |-> <<"read", "write">>],
     [type |-> "string", enum |-> <<"read">>],
     [type |-> "string"], [type |-> "number"], [type |-> "boolean"],
     [type |-> "array"], [type |-> "object"]}

\* the tools handed to createZodSchemaFromMCP: with an object schema of one
\* property that is required, optional by an empty list or optional by no
\* list; with a schema that is no object; with no schema
SchemaTools ==
    {[id |-> "server_1_file", schema |-> ActionSchema(p, r)] :
        p \in PropSchemas,
        r \in {[required |-> <<"action">>], [required |-> << >>], << >>}}
    \cup {[id |-> "server_1_file", schema |-> [type |-> "string"]],
          [id |-> "server_1_file"]}

\* the inputs parsed by the signature
SchemaInputs ==
    {<< >>, [action |-> Str("read")], [action |-> Str("write")],
     [action |-> Str("delete")], [action |-> Num("1")],
     [other |-> Str("read")], [action |-> Str("read"), other |-> Str("x")]}

SInit ==
    zod \in {[mcpTool |-> t, input |-> i] : t \in SchemaTools, i \in SchemaInputs}

\* parameters: this.createZodSchemaFromMCP(mcpTool), and the parse of the
\* input by these parameters
TranslateSchema ==
    /\ "parameters" \notin DOMAIN zod
    /\ LET parameters == createZodSchemaFromMCP(zod.mcpTool) IN
       zod' = Merge(zod, [parameters |-> parameters,
                          accepted |-> ZodAccepts(parameters, zod.input)])

\* ------------------------------------------------------------ execute
\* input payloads of executeMCPTool
CallInputs == {[query |-> Str("rain tomorrow")], [query |-> Num("7")], << >>}

\* the request of executeMCPTool naming the tool by its registry id
MCPToolCallById(tool, server, input) ==
    [method |-> "tools/call",
     params |-> [name |-> tool.id, arguments |-> input],
     to |-> server.endpoint]

\* the MCPRequest built by executeMCPTool and where sendMCPRequest posts it
MCPToolCall(tool, server, input) ==
    [method |-> "tools/call",
     params |-> [name |-> tool.name, arguments |-> input],
     to |-> server.endpoint]

\* what a step of executeMCPTool reports: the tool, how the call ended
\* ("pending" while it waits for the reply), the value it returned, whether
\* it threw, and whether the step put a request on the wire
ExecuteStep(toolId, outcome, output, thrown, sent) ==
    [op |-> IF outcome = "pending" THEN "executeStart" ELSE "execute",
     id |-> toolId, outcome |-> outcome, output |-> output,
     thrown |-> thrown, sent |-> sent]

\* executeInternalTool of EnhancedMCPService
InternalToolResult == "Internal tool executed"

\* executeMCPTool up to its throw or return, or up to the tools/call
\* request; the connection type is tested by sendMCPRequest before anything
\* is sent
ExecuteMCPToolStart(toolId, input) ==
    /\ issued < MaxOps
    /\ issued' = issued + 1
    /\ UNCHANGED <<servers, tools, toolCache, nextServer, applied>>
    /\ IF ~MapHas(tools, toolId)
       THEN /\ last' = ExecuteStep(toolId, "Tool " \o toolId \o " not found",
                                   Undef, TRUE, FALSE)
            /\ UNCHANGED tasks
       ELSE LET tool == MapGet(tools, toolId)
                serverId == tool.serverId
            IN
            IF tool.enabled # TRUE
            THEN /\ last' = ExecuteStep(toolId, "Tool " \o toolId \o " is disabled",
                                        Undef, TRUE, FALSE)
                 /\ UNCHANGED tasks
            ELSE IF Falsy(serverId)
            THEN /\ last' = ExecuteStep(toolId, "ok", InternalToolResult, FALSE, FALSE)
                 /\ UNCHANGED tasks
            ELSE IF ~ServerFound(serverId)
            THEN /\ last' = ExecuteStep(toolId, NotFoundError(serverId),
                                        Undef, TRUE, FALSE)
                 /\ UNCHANGED tasks
            ELSE IF servers[serverId].connectionType # "http"
            THEN /\ last' = ExecuteStep(toolId,
                                SendError(servers[serverId].connectionType),
                                Undef, TRUE, FALSE)
                 /\ UNCHANGED tasks
            ELSE /\ FreeTask # {}
                 /\ tasks' = [tasks EXCEPT ![NewTask] =
                                [kind |-> "execute", tool |-> toolId,
                                 request |-> MCPToolCall(tool, servers[serverId], input)]]
                 /\ last' = ExecuteStep(toolId, "pending", Undef, FALSE, TRUE)

\* executeMCPTool from the tools/call reply to its return or throw
ExecuteMCPToolReply(t, reply) ==
    /\ tasks[t].kind = "execute"
    /\ tasks' = [tasks EXCEPT ![t] = Idle]
    /\ last' = ExecuteStep(tasks[t].tool, CallOutcome(reply),
                           IF reply.kind = "result" THEN reply.result ELSE Undef,
                           reply.kind # "result", FALSE)
    /\ UNCHANGED <<servers, tools, toolCache, nextServer, applied, issued>>

\* the tool ids executeMCPTool is called with: those registered and one
\* that is not
CallToolIds == {tools[i].id : i \in 1..Len(tools)} \cup {"server_0_none"}

\* ----------------------------------------------------- discover route
\* POST /api/mcp/servers/[serverId]/discover.  The module of this route
\* constructs its own EnhancedMCPService; the providers are added to the
\* instance of the servers route.  Nothing adds a provider to the instance
\* of this route (DiscoverRouteEmpty), so its discoverMCPTools throws
\* not-found before any request and the handler answers 500.
DiscoverRoute(sid) ==
    /\ issued < MaxOps
    /\ issued' = issued + 1
    /\ sid \notin DOMAIN discoverRouteServers
    /\ last' = [op |-> "discoverRoute", sid |-> sid, status |-> 500,
                error |-> NotFoundError(sid)]
    /\ UNCHANGED <<servers, tools, toolCache, tasks, nextServer, applied,
                   discoverRouteServers>>

EInit ==
    /\ servers = << >>
    /\ tools = << >>
    /\ toolCache = << >>
    /\ tasks = [t \in 1..MaxTasks |-> Idle]
    /\ nextServer = 0
    /\ applied = << >>
    /\ issued = 0
    /\ last = None
    /\ discoverRouteServers = << >>

\* ========================================================== MCPService

Channels == {"C1", "C2"}

InternalPrefix == "internal://"

\* endpoint.startsWith('internal://')
IsInternal(endpoint) ==
    endpoint \in {InternalPrefix \o n : n \in {"file-system", "web-search", "git", "other"}}

\* endpoint.replace('internal://', '')
ToolType(endpoint) ==
    CHOOSE n \in {"file-system", "web-search", "git", "other"} :
        endpoint = InternalPrefix \o n

\* new URL(endpoint) does not throw
ParsesAsURL(endpoint) == endpoint \in {"https://x"}

isValidEndpoint(endpoint) == IsInternal(endpoint) \/ ParsesAsURL(endpoint)

\* validateTool testing the name only
validateToolNameOnly(tool) ==
    IF Falsy(tool.name)
    THEN "Tool name and description are required"
    ELSE IF ~Falsy(tool.endpoint) /\ ~isValidEndpoint(tool.endpoint)
    THEN "Invalid tool endpoint URL"
    ELSE "ok"

\* validateTool: the message of the error it throws, or "ok"
validateTool(tool) ==
    IF Falsy(tool.name) \/ Falsy(tool.description)
    THEN "Tool name and description are required"
    ELSE IF ~Falsy(tool.endpoint) /\ ~isValidEndpoint(tool.endpoint)
    THEN "Invalid tool endpoint URL"
    ELSE "ok"

generateToolId(n) == "tool_" \o ToString(n)

BuiltIn(name, description) ==
    [id |-> name, name |-> name, description |-> description, enabled |-> TRUE,
     channels |-> << >>, endpoint |-> InternalPrefix \o name, serverId |-> Undef]

\* initializeDefaultTools
defaultTools ==
    << BuiltIn("file-system", "Read, write, and manage files and directories"),
       BuiltIn("web-search", "Search the web for information"),
       BuiltIn("git", "Git repository operations and version control") >>

\* Partial<MCPTool> payloads of the POST handler; config is flattened to
\* its endpoint
RegisterInputs ==
    {Merge(base, extra) :
        base \in [name : {Undef, "", "n1"}, description : {Undef, "", "d1"}],
        extra \in {<< >>, [id |-> "git"], [enabled |-> FALSE],
                   [channels |-> <<"C1">>], [endpoint |-> "https://x"],
                   [endpoint |-> "not a url"]}}

\* the MCPTool object registerTool builds from toolData
NewTool(toolData) ==
    [id          |-> IF Falsy(Field(toolData, "id"))
                     THEN generateToolId(nextTool + 1) ELSE toolData.id,
     name        |-> Field(toolData, "name"),
     description |-> Field(toolData, "description"),
     enabled     |-> IF "enabled" \in DOMAIN toolData THEN toolData.enabled ELSE TRUE,
     channels    |-> IF "channels" \in DOMAIN toolData THEN toolData.channels ELSE << >>,
     endpoint    |-> Field(toolData, "endpoint"),
     serverId    |-> Undef]

registerTool(toolData) ==
    LET tool == NewTool(toolData)
        generated == Falsy(Field(toolData, "id"))
        verdict == validateTool(tool)
    IN
    /\ missued < MaxToolOps
    /\ missued' = missued + 1
    /\ generated => nextTool < MaxGen
    /\ nextTool' = IF generated THEN nextTool + 1 ELSE nextTool
    /\ mtools' = IF verdict = "ok" THEN MapSet(mtools, tool) ELSE mtools
    /\ mlast' = [op |-> "register", id |-> tool.id, outcome |-> verdict]
    /\ UNCHANGED calls

\* Partial<MCPTool> payloads of the PUT handler
ToolUpdateInputs ==
    {[enabled |-> FALSE], [enabled |-> TRUE], [channels |-> <<"C2">>],
     [channels |-> << >>], [name |-> ""], [description |-> "d2"],
     [description |-> ""], [id |-> "tool_x"]}

\* { ...existingTool, ...updates } without the id line
UpdatedToolPayloadId(existingTool, updates, toolId) ==
    Merge(existingTool, updates)

\* { ...existingTool, ...updates, id: toolId }
UpdatedTool(existingTool, updates, toolId) ==
    Merge(Merge(existingTool, updates), [id |-> toolId])

updateTool(toolId, updates) ==
    /\ missued < MaxToolOps
    /\ missued' = missued + 1
    /\ UNCHANGED <<nextTool, calls>>
    /\ IF ~MapHas(mtools, toolId)
       THEN /\ mlast' = [op |-> "update", id |-> toolId, outcome |-> "notFound"]
            /\ UNCHANGED mtools
       ELSE LET updatedTool == UpdatedTool(MapGet(mtools, toolId), updates, toolId)
                verdict == validateTool(updatedTool)
            IN
            /\ mtools' = IF verdict = "ok" THEN MapSet(mtools, updatedTool) ELSE mtools
            /\ mlast' = [op |-> "update", id |-> toolId, outcome |-> verdict]

\* deleteTool; this.connections is never written, so closeConnection is
\* not awaited
deleteTool(toolId) ==
    /\ missued < MaxToolOps
    /\ missued' = missued + 1
    /\ mtools' = IF MapHas(mtools, toolId) THEN MapDelete(mtools, toolId) ELSE mtools
    /\ mlast' = [op |-> "delete", id |-> toolId,
                 outcome |-> IF MapHas(mtools, toolId) THEN "deleted" ELSE "notFound"]
    /\ UNCHANGED <<nextTool, calls>>

\* input payloads of executeTool
ExecInputs == {<< >>, [action |-> "read"], [action |-> "log"], [action |-> "delete"]}

executeFileSystemTool(input) ==
    IF Field(input, "action") \in {"read", "write", "list"}
    THEN "ok" ELSE "Unsupported file system action"

executeWebSearchTool(input) == "ok"

executeGitTool(input) ==
    IF Field(input, "action") \in {"status", "log"}
    THEN "ok" ELSE "Unsupported git action"

\* executeInternalTool: the handler that runs and how it ends
executeInternalTool(tool, input) ==
    LET toolType == ToolType(tool.endpoint) IN
    CASE toolType = "file-system" ->
             [handler |-> toolType, outcome |-> executeFileSystemTool(input)]
      [] toolType = "web-search" ->
             [handler |-> toolType, outcome |-> executeWebSearchTool(input)]
      [] toolType = "git" ->
             [handler |-> toolType, outcome |-> executeGitTool(input)]
      [] OTHER ->
             [handler |-> "none", outcome |-> "Unknown internal tool type"]

\* executeExternalTool up to axios.post: the request put on the wire
ToolCallRequest(tool, input) ==
    [method |-> "tools/call", name |-> tool.name, arguments |-> input,
     to |-> tool.endpoint, tool |-> tool.id]

\* executeTool without the test of tool.enabled
IsDisabledNever(tool) == FALSE

\* if (!tool.enabled)
IsDisabled(tool) == tool.enabled # TRUE

\* executeTool up to its return, or up to the tools/call request of an
\* external tool
ExecuteStart(toolId, input) ==
    /\ missued < MaxToolOps
    /\ missued' = missued + 1
    /\ UNCHANGED <<mtools, nextTool>>
    /\ IF ~MapHas(mtools, toolId)
       THEN /\ mlast' = [op |-> "execute", id |-> toolId, outcome |-> "notFound",
                         handler |-> "none", sent |-> FALSE, thrown |-> TRUE]
            /\ UNCHANGED calls
       ELSE LET tool == MapGet(mtools, toolId) IN
            IF IsDisabled(tool)
            THEN /\ mlast' = [op |-> "execute", id |-> toolId, outcome |-> "disabled",
                              handler |-> "none", sent |-> FALSE, thrown |-> TRUE]
                 /\ UNCHANGED calls
            ELSE IF IsInternal(tool.endpoint)
            THEN LET run == executeInternalTool(tool, input) IN
                 /\ mlast' = [op |-> "execute", id |-> toolId, outcome |-> run.outcome,
                              handler |-> run.handler, sent |-> FALSE,
                              thrown |-> run.outcome # "ok"]
                 /\ UNCHANGED calls
            ELSE /\ Len(calls) < MaxCalls
                 /\ calls' = Append(calls, ToolCallRequest(tool, input))
                 /\ mlast' = [op |-> "executeStart", id |-> toolId, outcome |-> "pending",
                              handler |-> "none", sent |-> TRUE, thrown |-> FALSE]

\* executeTool from the tools/call reply to its return or throw
ExecuteReply(i, reply) ==
    /\ i \in 1..Len(calls)
    /\ calls' = [j \in 1..(Len(calls) - 1) |-> IF j < i THEN calls[j] ELSE calls[j + 1]]
    /\ mlast' = [op |-> "execute", id |-> calls[i].tool,
                 outcome |-> CallOutcome(reply),
                 handler |-> "none", sent |-> FALSE,
                 thrown |-> reply.kind # "result"]
    /\ UNCHANGED <<mtools, nextTool, missued>>

MInit ==
    /\ mtools = defaultTools
    /\ nextTool = 0
    /\ calls = << >>
    /\ missued = 0
    /\ mlast = None

ToolIds == {"file-system", "git", "tool_1", "tool_x"}

MNext ==
    \/ \E d \in RegisterInputs : registerTool(d)
    \/ \E id \in ToolIds, u \in ToolUpdateInputs : updateTool(id, u)
    \/ \E id \in ToolIds : deleteTool(id)
    \/ \E id \in ToolIds, in \in ExecInputs : ExecuteStart(id, in)
    \/ \E i \in 1..MaxCalls, r \in CallReplies : ExecuteReply(i, r)

\* ============================================================ AIService
\* Text is a sequence of characters, so that toLowerCase and includes are
\* computed and not assumed.

\* String.prototype.toLowerCase
UpperToLower ==
    "A" :> "a" @@ "B" :> "b" @@ "C" :> "c" @@ "D" :> "d" @@ "E" :> "e" @@ "F" :> "f" @@
    "G" :> "g" @@ "H" :> "h" @@ "I" :> "i" @@ "J" :> "j" @@ "K" :> "k" @@ "L" :> "l" @@
    "M" :> "m" @@ "N" :> "n" @@ "O" :> "o" @@ "P" :> "p" @@ "Q" :> "q" @@ "R" :> "r" @@
    "S" :> "s" @@ "T" :> "t" @@ "U" :> "u" @@ "V" :> "v" @@ "W" :> "w" @@ "X" :> "x" @@
    "Y" :> "y" @@ "Z" :> "z"

toLowerCase(str) ==
    [i \in 1..Len(str) |->
        IF str[i] \in DOMAIN UpperToLower THEN UpperToLower[str[i]] ELSE str[i]]

\* String.prototype.includes
StrIncludes(str, sub) ==
    \E i \in 0..(Len(str) - Len(sub)) : SubSeq(str, i + 1, i + Len(sub)) = sub

\* the object literal `keywords` of isToolRelevant
keywords ==
    "file-system" :>
      << <<"f", "i", "l", "e">>,
         <<"r", "e", "a", "d">>,
         <<"w", "r", "i", "t", "e">>,
         <<"d", "i", "r", "e", "c", "t", "o", "r", "y">>,
         <<"f", "o", "l", "d", "e", "r">>,
         <<"s", "a", "v", "e">>,
         <<"l", "o", "a", "d">> >> @@
    "git" :>
      << <<"g", "i", "t">>,
         <<"c", "o", "m", "m", "i", "t">>,
         <<"b", "r", "a", "n", "c", "h">>,
         <<"r", "e", "p", "o", "s", "i", "t", "o", "r", "y">>,
         <<"c", "o", "d", "e">>,
         <<"v", "e", "r", "s", "i", "o", "n">> >> @@
    "database" :>
      << <<"d", "a", "t", "a", "b", "a", "s", "e">>,
         <<"q", "u", "e", "r", "y">>,
         <<"s", "q", "l">>,
         <<"d", "a", "t", "a">>,
         <<"t", "a", "b", "l", "e">>,
         <<"r", "e", "c", "o", "r", "d">> >> @@
    "web-search" :>
      << <<"s", "e", "a", "r", "c", "h">>,
         <<"f", "i", "n", "d">>,
         <<"l", "o", "o", "k", "u", "p">>,
         <<"g", "o", "o", "g", "l", "e">>,
         <<"w", "e", "b">>,
         <<"i", "n", "t", "e", "r", "n", "e", "t">> >> @@
    "calendar" :>
      << <<"c", "a", "l", "e", "n", "d", "a", "r">>,
         <<"s", "c", "h", "e", "d", "u", "l", "e">>,
         <<"m", "e", "e", "t", "i", "n", "g">>,
         <<"a", "p", "p", "o", "i", "n", "t", "m", "e", "n", "t">>,
         <<"d", "a", "t", "e">>,
         <<"t", "i", "m", "e">> >> @@
    "email" :>
      << <<"e", "m", "a", "i", "l">>,
         <<"s", "e", "n", "d">>,
         <<"m", "e", "s", "s", "a", "g", "e">>,
         <<"m", "a", "i", "l">>,
         <<"c", "o", "n", "t", "a", "c", "t">> >>

\* property names every object literal inherits from Object.prototype: the
\* value found under such a name is not an array and has no method `some`
InheritedNames == {"constructor", "toString", "valueOf", "hasOwnProperty"}

\* isToolRelevant throws: keywords[tool.name] is an inherited, truthy value,
\* so `|| []` does not apply and toolKeywords.some is not a function
isToolRelevantThrows(tool) ==
    tool.name \notin DOMAIN keywords /\ tool.name \in InheritedNames

\* isToolRelevant, when it returns
isToolRelevant(content, tool) ==
    LET toolKeywords == IF tool.name \in DOMAIN keywords
                        THEN keywords[tool.name] ELSE << >>
    IN \E k \in 1..Len(toolKeywords) : StrIncludes(content, toolKeywords[k])

\* selectRelevantTools: the list it returns, or the fact that it threw
selectRelevantTools(content, availableTools) ==
    LET lowerContent == toLowerCase(content) IN
    IF \E i \in 1..Len(availableTools) : isToolRelevantThrows(availableTools[i])
    THEN [threw |-> TRUE, tools |-> << >>]
    ELSE [threw |-> FALSE,
          tools |-> SelectSeq(availableTools,
                              LAMBDA tool : isToolRelevant(lowerContent, tool))]

\* extractFileAction
extractFileAction(content) ==
    IF \E w \in {<<"r", "e", "a", "d">>, <<"s", "h", "o", "w">>, <<"g", "e", "t">>} :
           StrIncludes(content, w)
    THEN "read"
    ELSE IF \E w \in {<<"w", "r", "i", "t", "e">>, <<"s", "a", "v", "e">>, <<"c", "r", "e", "a", "t", "e">>} :
           StrIncludes(content, w)
    THEN "write"
    ELSE IF \E w \in {<<"l", "i", "s", "t">>, <<"d", "i", "r", "e", "c", "t", "o", "r", "y">>} :
           StrIncludes(content, w)
    THEN "list"
    ELSE "read"

\* prepareMCPToolInput giving the git tool an action
prepareMCPToolInputGitStatus(content, tool) ==
    IF tool.name = "file-system"
    THEN [action |-> extractFileAction(content)]
    ELSE IF tool.name = "git" THEN [action |-> "status"]
    ELSE << >>

\* prepareMCPToolInput, reduced to the field the built-in handlers read
prepareMCPToolInput(content, tool) ==
    IF tool.name = "file-system"
    THEN [action |-> extractFileAction(content)]
    ELSE << >>

\* this.mcpService.executeTool(tool.id, input) on the registry of AIService,
\* which holds the built-in tools and is written by nobody: "ok" or the
\* message of the error thrown
AIExecuteTool(toolId, input) ==
    IF ~MapHas(defaultTools, toolId)
    THEN "Tool " \o toolId \o " not found"
    ELSE LET tool == MapGet(defaultTools, toolId) IN
         IF IsDisabled(tool) THEN "Tool " \o toolId \o " is disabled"
         ELSE executeInternalTool(tool, input).outcome

\* executeMCPTools stopping at the first tool that fails
RECURSIVE executeMCPToolsUntilFailure(_, _)
executeMCPToolsUntilFailure(content, tls) ==
    IF tls = << >> THEN << >>
    ELSE LET tool == Head(tls)
             outcome == AIExecuteTool(tool.id, prepareMCPToolInput(content, tool))
             input == prepareMCPToolInput(content, tool)
             execution == [toolId |-> tool.id,
                           input |-> IF outcome = "ok" THEN input ELSE << >>,
                           success |-> outcome = "ok",
                           error |-> IF outcome = "ok" THEN Undef ELSE outcome]
         IN IF outcome = "ok"
            THEN <<execution>> \o executeMCPToolsUntilFailure(content, Tail(tls))
            ELSE <<execution>>

\* executeMCPTools: the for loop with its try/catch, one MCPToolExecution
\* pushed per iteration
RECURSIVE executeMCPTools(_, _)
executeMCPTools(content, tls) ==
    IF tls = << >> THEN << >>
    ELSE LET tool == Head(tls)
             outcome == AIExecuteTool(tool.id, prepareMCPToolInput(content, tool))
             input == prepareMCPToolInput(content, tool)
             execution == [toolId |-> tool.id,
                           input |-> IF outcome = "ok" THEN input ELSE << >>,
                           success |-> outcome = "ok",
                           error |-> IF outcome = "ok" THEN Undef ELSE outcome]
         IN <<execution>> \o executeMCPTools(content, Tail(tls))

\* message texts
MsgGitLog ==
    <<"p", "l", "e", "a", "s", "e", " ", "c", "h", "e",
      "c", "k", " ", "t", "h", "e", " ", "g", "i", "t",
      " ", "l", "o", "g", " ", "f", "o", "r", " ", "t",
      "h", "i", "s", " ", "r", "e", "p", "o">>
MsgFindFile ==
    <<"F", "i", "n", "d", " ", "a", " ", "F", "I", "L", "E">>
MsgSometimes ==
    <<"s", "o", "m", "e", "t", "i", "m", "e", "s">>
MsgSave ==
    <<"s", "a", "v", "e", " ", "i", "t">>
MsgHello ==
    <<"h", "e", "l", "l", "o">>

MsgSearchCode ==
    <<"s", "e", "a", "r", "c", "h", " ", "t", "h", "e", " ", "c", "o", "d", "e">>

MsgListGitFolder ==
    <<"l", "i", "s", "t", " ", "t", "h", "e", " ", "g", "i", "t", " ",
      "f", "o", "l", "d", "e", "r">>

Messages ==
    {MsgGitLog, MsgFindFile, MsgSometimes, MsgSave, MsgHello, MsgSearchCode,
     MsgListGitFolder}

\* candidate tools handed to processMessage
CandidateTools ==
    {[id |-> "git", name |-> "git"],
     [id |-> "calendar", name |-> "calendar"],
     [id |-> "file-system", name |-> "file-system"],
     [id |-> "web-search", name |-> "web-search"],
     [id |-> "tool_1", name |-> "constructor"]}

CandidateLists ==
    UNION {[1..n -> CandidateTools] : n \in 0..MaxCandidates}

\* processMessage: selection, execution, then the model call, which either
\* answers or fails; the turn is what the call leaves behind.  AIService
\* keeps nothing from one call to the next (its registry is never written),
\* so a behaviour holds one call.
processMessage(content, availableTools, answered) ==
    LET selection == selectRelevantTools(content, availableTools)
        toolExecutions == executeMCPTools(content, selection.tools)
    IN
    /\ turn = None
    /\ turn' = [content |-> content,
                availableTools |-> availableTools,
                selectThrew |-> selection.threw,
                relevantTools |-> selection.tools,
                toolExecutions |-> toolExecutions,
                threw |-> selection.threw \/ ~answered,
                mcpToolsUsed |-> IF selection.threw \/ ~answered THEN << >>
                                 ELSE [i \in 1..Len(toolExecutions) |->
                                          toolExecutions[i].toolId]]

FInit == turn = None

FNext ==
    \E content \in Messages, availableTools \in CandidateLists, answered \in BOOLEAN :
        processMessage(content, availableTools, answered)

ENext ==
    \/ \E d \in AddInputs : AddStart(d)
    \/ \E t \in 1..MaxTasks, r \in ProbeReplies : AddProbeReply(t, r)
    \/ \E s \in ServerIds : deleteMCPServer(s)
    \/ \E s \in ServerIds : DiscoverStart(s)
    \/ \E t \in 1..MaxTasks, r \in ListReplies : DiscoverListReply(t, r)
    \/ \E s \in ServerIds, u \in UpdateInputs : UpdateStart(s, u)
    \/ \E t \in 1..MaxTasks, r \in ProbeReplies : UpdateProbeReply(t, r)
    \/ \E t \in 1..MaxTasks, r \in ListReplies : UpdateListReply(t, r)
    \/ RefreshStart
    \/ \E id \in CallToolIds, in \in CallInputs : ExecuteMCPToolStart(id, in)
    \/ \E t \in 1..MaxTasks, r \in CallReplies : ExecuteMCPToolReply(t, r)
    \/ \E t \in 1..MaxTasks, s \in ServerIds, r \in ListReplies :
          RefreshListReply(t, s, r)
    \/ \E c \in ChannelIds : getVercelAITools(c)

Init == EInit /\ MInit /\ FInit /\ zod = None

Next ==
    /\ \/ ENext /\ UNCHANGED discoverRouteServers
       \/ \E s \in ServerIds : DiscoverRoute(s)
    /\ UNCHANGED <<mvars, fvars, zod>>

Spec == Init /\ [][Next]_vars

\* MCPService on its own
NextTools == MNext /\ UNCHANGED <<evars, fvars, discoverRouteServers, zod>>

SpecTools == Init /\ [][NextTools]_vars

\* AIService on its own
NextFacade == FNext /\ UNCHANGED <<evars, mvars, discoverRouteServers, zod>>

SpecFacade == Init /\ [][NextFacade]_vars

\* the schema translation on its own: a tool and an input are drawn, the
\* tool's schema is translated and the input is parsed by the signature
NextSchema ==
    TranslateSchema /\ UNCHANGED <<evars, mvars, fvars, discoverRouteServers>>

InitSchema == EInit /\ MInit /\ FInit /\ SInit

SpecSchema == InitSchema /\ [][NextSchema]_vars

\* =============================================================== lemmas

\* generateServerId never hands out an id that is in the Map: the id of a
\* pending addMCPServer is not a key of servers
FreshServerId ==
    \A t \in 1..MaxTasks :
        tasks[t].kind = "add" => tasks[t].server.id \notin DOMAIN servers

\* the EnhancedMCPService of the discover route never holds a provider
DiscoverRouteEmpty == discoverRouteServers = << >>

\* =============================================================== claims

\* the tools of a registry as a set, and the view of a tool a discovery fixes
ToolSet(m) == {m[i] : i \in 1..Len(m)}

ToolFacts(m) == {<<m[i].id, m[i].name, m[i].description>> : i \in 1..Len(m)}

OwnedBy(m, sid) == {tl \in ToolSet(m) : tl.serverId = sid}

\* C1: whatever tools were registered, updated and removed, listForChannel(c)
\* returns exactly the tools of the registry that are enabled and whose
\* channel-scope is empty or contains c, each once; a disabled tool is never
\* in it.
C1_ListForChannelExact ==
    \A c \in Channels \cup {"C9"} :
        LET listed == getToolsForChannel(mtools, c) IN
        /\ ToolSet(listed) =
             {tl \in ToolSet(mtools) :
                 tl.enabled /\ (Range(tl.channels) = {} \/ c \in Range(tl.channels))}
        /\ Cardinality(ToolSet(listed)) = Len(listed)
        /\ \A tl \in ToolSet(mtools) : ~tl.enabled => tl \notin ToolSet(listed)

\* C1 witness: a disabled tool scoped to C2 exists, and an enabled tool is
\* listed for C2 but not for C1.
C1_Witness ==
    /\ \E tl \in ToolSet(mtools) : ~tl.enabled /\ Includes(tl.channels, "C2")
    /\ \E tl \in ToolSet(getToolsForChannel(mtools, "C2")) :
          tl \notin ToolSet(getToolsForChannel(mtools, "C1"))

\* C2 (as claimed): an add of an http provider whose reachability probe
\* succeeds ends with the record stored as `connected`.
C2_AddConnects ==
    (last.op = "add" /\ last.probe = "ok")
        => /\ last.sid \in DOMAIN servers
           /\ servers[last.sid].connectionStatus = "connected"

\* C3: an add whose reachability probe fails still stores the record, in
\* status `error` with an error message, and no tool is owned by its id.
C3_FailedAddKeepsRecord ==
    (last.op = "add" /\ last.probe = "fail")
        => /\ last.sid \in DOMAIN servers
           /\ servers[last.sid].connectionStatus = "error"
           /\ ~Falsy(servers[last.sid].error)
           /\ OwnedBy(tools, last.sid) = {}

\* C3 witness: an add has just returned after a failed probe.
C3_Witness == last.op = "add" /\ last.probe = "fail"

\* C4: remove of a known provider deletes its record and exactly the tools
\* it owns, every other tool and provider stays as it was; remove of an
\* unknown id reports not-found and changes nothing.
C4_RemoveCascades ==
    [][last'.op = "delete" =>
         IF last'.sid \in DOMAIN servers
         THEN /\ last'.outcome = "deleted"
              /\ DOMAIN servers' = DOMAIN servers \ {last'.sid}
              /\ \A s \in DOMAIN servers' : servers'[s] = servers[s]
              /\ OwnedBy(tools', last'.sid) = {}
              /\ tools' = SelectSeq(tools, LAMBDA tl : tl.serverId # last'.sid)
         ELSE /\ last'.outcome = "notFound"
              /\ servers' = servers
              /\ tools' = tools]_vars

\* C4 witness: a remove has deleted tools of its provider and tools of
\* another provider are still registered.
C4_Witness ==
    /\ last.op = "delete"
    /\ last.outcome = "deleted"
    /\ last.removed > 0
    /\ tools # << >>

\* C5: a successful discovery whose reply lists what the provider's last
\* applied discovery listed leaves the identifiers, names and descriptions of
\* the registered tools, and their number, as they were.
C5_RediscoveryIdempotent ==
    [][(last'.op = "discover" /\ last'.outcome = "ok" /\ last'.again)
          => /\ ToolFacts(tools') = ToolFacts(tools)
             /\ Len(tools') = Len(tools)
             /\ Cardinality(OwnedBy(tools', last'.sid))
                  = Cardinality(OwnedBy(tools, last'.sid))]_vars

\* C5 witness: a discovery has just been applied a second time with the
\* same non-empty tool list.
C5_Witness ==
    /\ last.op = "discover"
    /\ last.outcome = "ok"
    /\ last.again
    /\ OwnedBy(tools, last.sid) # {}

\* C6: executeTool on a registered, disabled tool ends with the disabled
\* error, runs no built-in handler and sends no tools/call request.
C6_DisabledNeverDispatched ==
    [][\A id \in ToolIds, in \in ExecInputs :
          (ExecuteStart(id, in) /\ MapHas(mtools, id) /\ ~MapGet(mtools, id).enabled)
             => /\ mlast'.op = "execute"
                /\ mlast'.outcome = "disabled"
                /\ mlast'.handler = "none"
                /\ ~mlast'.sent
                /\ calls' = calls]_vars

\* C6 witness: executeTool has just refused a disabled tool that has no
\* internal endpoint (a provider-backed tool).
C6_Witness ==
    /\ mlast.op = "execute"
    /\ mlast.outcome = "disabled"
    /\ MapHas(mtools, mlast.id)
    /\ ~IsInternal(MapGet(mtools, mlast.id).endpoint)

\* C7: registerTool with an empty or absent name, or an empty or absent
\* description, fails with the validation error and leaves the registry as
\* it was.
C7_InvalidRegisterRejected ==
    [][\A d \in RegisterInputs :
          (registerTool(d) /\ (Falsy(Field(d, "name")) \/ Falsy(Field(d, "description"))))
             => /\ mlast'.outcome = "Tool name and description are required"
                /\ mtools' = mtools]_vars

\* C7 witness: a registration under the id of a registered tool has just
\* been rejected for its name or description.
C7_Witness ==
    /\ mlast.op = "register"
    /\ mlast.outcome = "Tool name and description are required"
    /\ MapHas(mtools, mlast.id)

C9_DiscoverUpdatesBoth ==
    (/\ last.op = "discover"
     /\ last.via = "api"
     /\ last.outcome \in {"ok", "failed"}
     /\ ~last.stale)
        => /\ servers[last.sid].lastDiscovery = Now
           /\ servers[last.sid].connectionStatus =
                 (IF last.outcome = "ok" THEN "connected" ELSE "error")

\* C10 (as claimed): the stored connectionStatus of a provider changes only
\* in a step that ends a connect or discover attempt.
C10_StatusOnlyByAttempts ==
    [][\A s \in DOMAIN servers \cap DOMAIN servers' :
          servers'[s].connectionStatus # servers[s].connectionStatus
             => \/ last'.op \in {"discover", "refresh"}
                \/ last'.op = "update" /\ last'.reconnect]_vars

\* C11 (as claimed): every provider record carries the id it is stored
\* under, whatever updates were applied to it.
C11_IdImmutable ==
    \A s \in DOMAIN servers : servers[s].id = s

\* C12 (as claimed): an update of a stored provider attempts connect and
\* discover exactly when it changes the endpoint, the credential or the
\* connection type; otherwise it makes no request and leaves the status,
\* the discovered tools and the tool registry as they were.
C12_ReconnectIffChanged ==
    [][\A s \in ServerIds, u \in UpdateInputs :
          (UpdateStart(s, u) /\ s \in DOMAIN servers) =>
             LET changed == \E f \in {"endpoint", "apiKey", "connectionType"} :
                                f \in DOMAIN u /\ u[f] # servers[s][f]
                 attempted == \/ last'.op = "updateStart"
                              \/ last'.op = "update" /\ last'.reconnect
             IN /\ attempted <=> changed
                /\ ~changed =>
                      /\ tasks' = tasks
                      /\ tools' = tools
                      /\ "connectionStatus" \notin DOMAIN u =>
                            servers'[s].connectionStatus = servers[s].connectionStatus
                      /\ servers'[s].discoveredTools = servers[s].discoveredTools]_vars

\* C13 (as claimed): executeMCPTool on a provider-backed tool with an input
\* its signature rejects ends without a tools/call request put on the wire.
C13_InvalidInputNotSent ==
    [][\A id \in CallToolIds, in \in CallInputs :
          (/\ ExecuteMCPToolStart(id, in)
           /\ MapHas(tools, id)
           /\ ~Falsy(MapGet(tools, id).serverId)
           /\ ~ZodAccepts(createZodSchemaFromMCP(MapGet(tools, id)), in))
             => /\ ~last'.sent
                /\ last'.thrown
                /\ tasks' = tasks]_vars

\* C14 (as claimed): every executeTool call that has ended has returned a
\* result to its caller; none has ended by throwing.
C14_ExecuteNeverThrows ==
    mlast.op = "execute" => ~mlast.thrown

\* C15: in a turn whose selection returned, executeMCPTools leaves one
\* execution record per selected tool, in selection order, each carrying the
\* id of its tool and the outcome of its own executeTool call; a failed record
\* is followed by the records of the remaining tools.
C15_EveryChosenToolAttempted ==
    ("relevantTools" \in DOMAIN turn /\ ~turn.selectThrew) =>
        /\ Len(turn.toolExecutions) = Len(turn.relevantTools)
        /\ \A i \in 1..Len(turn.relevantTools) :
              LET tool == turn.relevantTools[i]
                  outcome == AIExecuteTool(tool.id,
                                 prepareMCPToolInput(turn.content, tool))
              IN /\ turn.toolExecutions[i].toolId = tool.id
                 /\ turn.toolExecutions[i].success = (outcome = "ok")
                 /\ ~turn.toolExecutions[i].success =>
                        turn.toolExecutions[i].error = outcome

\* C15 witness: a turn in which the first selected tool failed and the
\* second one was still executed, with success.
C15_Witness ==
    /\ "toolExecutions" \in DOMAIN turn
    /\ Len(turn.toolExecutions) = 2
    /\ ~turn.toolExecutions[1].success
    /\ turn.toolExecutions[2].success
    /\ turn.toolExecutions[1].toolId # turn.toolExecutions[2].toolId

\* C16 (as claimed): selectRelevantTools returns, in candidate order, exactly
\* the candidates whose name is a key of the keyword table with a keyword
\* that occurs in the lower-cased message.
C16_SelectExact ==
    "relevantTools" \in DOMAIN turn =>
        /\ ~turn.selectThrew
        /\ turn.relevantTools =
             SelectSeq(turn.availableTools,
                 LAMBDA tool :
                     /\ tool.name \in DOMAIN keywords
                     /\ \E k \in 1..Len(keywords[tool.name]) :
                           StrIncludes(toLowerCase(turn.content),
                                       keywords[tool.name][k]))

\* C17 (as claimed): an updateMCPServer call that completes on a stored
\* provider leaves every field it was not asked to change as it is in the
\* record at that moment, so that the change another update has stored in
\* the meantime is kept.
C17_NoLostUpdate ==
    [][\A t \in 1..MaxTasks :
          (/\ tasks[t].kind = "update"
           /\ tasks'[t].kind = "idle"
           /\ tasks[t].sid \in DOMAIN servers)
             => \A f \in {"enabled", "endpoint", "apiKey", "connectionType"}
                           \ DOMAIN tasks[t].updates :
                    servers'[tasks[t].sid][f] = servers[tasks[t].sid][f]]_vars

\* C18 (as claimed): a discovery triggered through the discover route for a
\* provider that was added and not removed finds the provider.
C18_OneRegistry ==
    (last.op = "discoverRoute" /\ last.sid \in DOMAIN servers)
        => last.status = 200

\* C19: executeMCPTool on an enabled tool of a stored http provider puts
\* exactly one request on the wire, with method tools/call, the tool's name
\* and the input as given, addressed to the endpoint of the provider that
\* owns the tool; the reply step sends nothing more, returns the result
\* payload of a success reply as it came, and throws an error carrying the
\* provider's message on an error reply.
C19_ToolsCallRoundTrip ==
    [][/\ \A id \in CallToolIds, in \in CallInputs :
            (/\ ExecuteMCPToolStart(id, in)
             /\ MapHas(tools, id)
             /\ MapGet(tools, id).enabled
             /\ MapGet(tools, id).serverId \in DOMAIN servers
             /\ servers[MapGet(tools, id).serverId].connectionType = "http")
               => /\ last'.sent
                  /\ \E t \in 1..MaxTasks :
                        /\ tasks[t].kind = "idle"
                        /\ tasks'[t].kind = "execute"
                        /\ tasks'[t].request.method = "tools/call"
                        /\ tasks'[t].request.params =
                             [name |-> MapGet(tools, id).name, arguments |-> in]
                        /\ tasks'[t].request.to =
                             servers[MapGet(tools, id).serverId].endpoint
                        /\ \A u \in 1..MaxTasks \ {t} : tasks'[u] = tasks[u]
       /\ \A t \in 1..MaxTasks, r \in CallReplies :
            ExecuteMCPToolReply(t, r)
               => /\ ~last'.sent
                  /\ \A u \in 1..MaxTasks \ {t} : tasks'[u] = tasks[u]
                  /\ r.kind = "result" =>
                        /\ ~last'.thrown
                        /\ last'.output = r.result
                  /\ r.kind = "error" =>
                        /\ last'.thrown
                        /\ last'.outcome = "MCP tool error: " \o r.message]_vars

\* C19 witness: a tools/call round trip has just returned the provider's
\* payload.
C19_Witness ==
    /\ last.op = "execute"
    /\ ~last.thrown
    /\ last.output = "payload"

\* C20: for a provider of connection type websocket or stdio, connect (in
\* add and in update), discover and tool execution each fail without a
\* request being sent, with a message that is not the one of a network
\* failure; add stores the record in status error with that message.
C20_UnsupportedTypes ==
  [][
    LET NoNewRequest == \A t \in 1..MaxTasks :
                            tasks[t].kind = "idle" => tasks'[t].kind = "idle"
        Network == {HttpConnectError, "Network Error",
                    "Tool discovery failed: Network Error"}
        Unsupported(ct) == ct \in {"websocket", "stdio"}
    IN
       /\ \A d \in AddInputs :
            (AddStart(d) /\ Unsupported(d.connectionType))
               => LET sid == generateServerId(nextServer + 1) IN
                  /\ NoNewRequest
                  /\ sid \in DOMAIN servers'
                  /\ servers'[sid].connectionType = d.connectionType
                  /\ servers'[sid].connectionStatus = "error"
                  /\ servers'[sid].error = ConnectError(d.connectionType)
                  /\ servers'[sid].error \notin Network
       /\ \A s \in ServerIds, u \in UpdateInputs :
            (/\ UpdateStart(s, u)
             /\ s \in DOMAIN servers
             /\ Reconnects(u)
             /\ Unsupported(Merge(servers[s], u).connectionType))
               => /\ NoNewRequest
                  /\ servers'[s].connectionStatus = "error"
                  /\ servers'[s].error =
                        ConnectError(Merge(servers[s], u).connectionType)
                  /\ servers'[s].error \notin Network
       /\ \A s \in ServerIds :
            (/\ DiscoverStart(s)
             /\ s \in DOMAIN servers
             /\ Unsupported(servers[s].connectionType))
               => /\ NoNewRequest
                  /\ last'.outcome = "unsupported"
                  /\ servers'[s].connectionStatus = "error"
                  /\ servers'[s].error = "Tool discovery failed: "
                                            \o SendError(servers[s].connectionType)
                  /\ servers'[s].error \notin Network
       /\ \A id \in CallToolIds, in \in CallInputs :
            (/\ ExecuteMCPToolStart(id, in)
             /\ MapHas(tools, id)
             /\ MapGet(tools, id).serverId \in DOMAIN servers
             /\ Unsupported(servers[MapGet(tools, id).serverId].connectionType))
               => /\ NoNewRequest
                  /\ ~last'.sent
                  /\ last'.thrown
                  /\ last'.outcome =
                        SendError(servers[MapGet(tools, id).serverId].connectionType)
                  /\ last'.outcome \notin Network
  ]_vars

\* C20 witness: the execution of a tool whose provider is now of type
\* websocket has just been refused.
C20_Witness ==
    /\ last.op = "execute"
    /\ last.thrown
    /\ last.outcome = SendError("websocket")

\* C21: updateTool on an unknown id fails with not-found and stores
\* nothing; on a stored tool it takes every field of the payload except the
\* id over the stored record, and either rejects the merged record for its
\* empty name or description, leaving the registry as it was, or stores it
\* under the id it had; no other record changes and no id appears or
\* disappears.
C21_UpdateMergesAndValidates ==
    [][\A id \in ToolIds, u \in ToolUpdateInputs :
          updateTool(id, u) =>
             IF ~MapHas(mtools, id)
             THEN mlast'.outcome = "notFound" /\ mtools' = mtools
             ELSE LET old == MapGet(mtools, id)
                      name == IF "name" \in DOMAIN u THEN u.name ELSE old.name
                      description == IF "description" \in DOMAIN u
                                     THEN u.description ELSE old.description
                  IN
                  /\ {mtools'[i].id : i \in 1..Len(mtools')}
                        = {mtools[i].id : i \in 1..Len(mtools)}
                  /\ Len(mtools') = Len(mtools)
                  /\ \A i \in 1..Len(mtools) :
                        mtools[i].id # id => mtools'[i] = mtools[i]
                  /\ IF name = "" \/ description = ""
                     THEN /\ mlast'.outcome = "Tool name and description are required"
                          /\ mtools' = mtools
                     ELSE /\ mlast'.outcome = "ok"
                          /\ LET new == MapGet(mtools', id) IN
                             /\ new.id = id
                             /\ \A f \in DOMAIN old \ {"id"} :
                                   new[f] = IF f \in DOMAIN u THEN u[f] ELSE old[f]]_vars

\* an update emptying the name or the description of a stored tool was
\* rejected, and the tool still has both
C21_Witness ==
    /\ mlast.op = "update"
    /\ mlast.outcome = "Tool name and description are required"
    /\ MapHas(mtools, mlast.id)
    /\ MapGet(mtools, mlast.id).description # ""
    /\ MapGet(mtools, mlast.id).name # ""

\* C22: the signature translated from the object schema whose one property
\* `action` is a required string with enum [read, write] accepts
\* {action: "read"}, rejects {action: "delete"} and rejects {}; and the
\* signature translated from any object schema whose property `action` is a
\* required string with an enum accepts an input exactly when the input
\* carries `action` as a string that is one of the enum's values.
C22_RequiredEnumExact ==
    ("parameters" \in DOMAIN zod /\ "schema" \in DOMAIN zod.mcpTool) =>
       LET schema == zod.mcpTool.schema
           input == zod.input
       IN
       /\ schema = [type |-> "object",
                    properties |-> [action |-> [type |-> "string",
                                                enum |-> <<"read", "write">>]],
                    required |-> <<"action">>]
            => /\ input = [action |-> Str("read")] => zod.accepted
               /\ input = [action |-> Str("delete")] => ~zod.accepted
               /\ input = << >> => ~zod.accepted
       /\ (/\ schema.type = "object"
           /\ "required" \in DOMAIN schema
           /\ Includes(schema.required, "action")
           /\ schema.properties.action.type = "string"
           /\ "enum" \in DOMAIN schema.properties.action)
            => (zod.accepted <=>
                   /\ "action" \in DOMAIN input
                   /\ input.action.t = "string"
                   /\ \E k \in 1..Len(schema.properties.action.enum) :
                         schema.properties.action.enum[k] = input.action.v)

\* the schema of the example was translated and {action: "delete"} parsed
C22_Witness ==
    /\ "parameters" \in DOMAIN zod
    /\ "schema" \in DOMAIN zod.mcpTool
    /\ zod.mcpTool.schema.type = "object"
    /\ "required" \in DOMAIN zod.mcpTool.schema
    /\ zod.mcpTool.schema.required = <<"action">>
    /\ zod.mcpTool.schema.properties.action = [type |-> "string",
                                               enum |-> <<"read", "write">>]
    /\ zod.input = [action |-> Str("delete")]
    /\ ~zod.accepted

\* C23 (as claimed): the tools/list request an updateMCPServer call sends
\* after its probe goes to the endpoint of the updated record, and when the
\* call returns connected the stored record carries the tool list that
\* request returned and the time of the attempt as lastDiscovery.
C23_UpdateRediscoversUpdated ==
    [][\A t \in 1..MaxTasks :
          /\ (/\ tasks[t].kind = "update" /\ tasks[t].pc = "probe"
              /\ tasks'[t].kind = "update" /\ tasks'[t].pc = "list")
                => tasks'[t].to = tasks[t].updated.endpoint
          /\ (/\ tasks[t].kind = "update" /\ tasks[t].pc = "list"
              /\ tasks'[t].kind = "idle"
              /\ last'.op = "update" /\ last'.outcome = "connected")
                => /\ servers'[tasks[t].sid].discoveredTools = applied'[tasks[t].sid]
                   /\ servers'[tasks[t].sid].lastDiscovery = Now]_vars

\* C24 (as claimed): every tool of the registry is owned by a provider that
\* is in the provider registry.
C24_ToolsOwnedByStoredProvider ==
    \A i \in 1..Len(tools) : tools[i].serverId \in DOMAIN servers

\* C25 (as claimed): an id becomes a key of the provider registry only by
\* the addMCPServer call that generated it, so that an id deleteMCPServer
\* removed is absent in every later state.
C25_RemovalFinal ==
    [][\A s \in ServerIds :
          (s \in DOMAIN servers' /\ s \notin DOMAIN servers)
             => last'.op = "add" /\ last'.sid = s]_vars

\* C26 (as claimed): every key of the tool cache is the id of a tool of the
\* registry, and the callable cached under it is the one getVercelAITools
\* would build from the tool's description and schema as they are now.
C26_CacheCoherent ==
    \A id \in DOMAIN toolCache :
        /\ MapHas(tools, id)
        /\ toolCache[id] = VercelTool(MapGet(tools, id))

\* C27: a step removes a tool from the registry only when it is the
\* deleteMCPServer step of the tool's provider; after any other step the
\* tool is still registered, enabled and listed for every channel, and
\* after a discovery of its provider that ran to its end without listing
\* the tool's name its record is what it was.
C27_DiscoverNeverRemoves ==
    [][\A i \in 1..Len(tools) :
          LET tool == tools[i] IN
          IF /\ last'.op = "delete" /\ last'.outcome = "deleted"
             /\ tool.serverId = last'.sid
          THEN ~MapHas(tools', tool.id)
          ELSE /\ MapHas(tools', tool.id)
               /\ MapGet(tools', tool.id).enabled = TRUE
               /\ \A c \in Channels :
                     \E j \in 1..Len(getToolsForChannel(tools', c)) :
                         getToolsForChannel(tools', c)[j].id = tool.id
               /\ (/\ last'.op = "discover" /\ last'.outcome = "ok"
                   /\ last'.sid = tool.serverId
                   /\ \A k \in 1..Len(applied'[last'.sid]) :
                         applied'[last'.sid][k].name # tool.name)
                     => MapGet(tools', tool.id) = tool]_vars

\* a discovery of a provider has just run to its end and a tool of that
\* provider that its reply did not list is in the registry
C27_Witness ==
    /\ last.op = "discover"
    /\ last.outcome = "ok"
    /\ last.sid \in DOMAIN servers
    /\ \E i \in 1..Len(tools) :
          /\ tools[i].serverId = last.sid
          /\ \A k \in 1..Len(applied[last.sid]) :
                applied[last.sid][k].name # tools[i].name

\* C28: after a discovery that ran to its end (called directly, by
\* refreshAllMCPServers or by updateMCPServer), every tool its reply listed
\* is in the registry under the provider's id and the tool's name, enabled
\* and with no channel scope.
C28_ListedToolsEnabledUnscoped ==
    [][((last'.op = "discover" /\ last'.outcome = "ok")
          \/ (last'.op = "update" /\ last'.outcome = "connected"))
         => \A k \in 1..Len(applied'[last'.sid]) :
               LET id == last'.sid \o "_" \o applied'[last'.sid][k].name IN
               /\ MapHas(tools', id)
               /\ MapGet(tools', id).enabled = TRUE
               /\ MapGet(tools', id).channels = << >>]_vars

\* a discovery has just run to its end over tools the registry already
\* held: it listed what the provider's discovery before it had listed
C28_Witness ==
    /\ last.op = "discover"
    /\ last.outcome = "ok"
    /\ last.again
    /\ \E i \in 1..Len(tools) : tools[i].serverId = last.sid

\* C29: discoverMCPTools on a stored provider that is not enabled sends
\* tools/list when the provider is of type http and fails as unsupported
\* otherwise; executeMCPTool on a tool whose stored http provider is not
\* enabled sends tools/call; and a tool whose provider is not enabled is
\* listed for every channel.
C29_EnabledGatesOnlyRefresh ==
    [][/\ \A s \in ServerIds :
            (/\ DiscoverStart(s)
             /\ s \in DOMAIN servers
             /\ servers[s].enabled = FALSE)
               => IF servers[s].connectionType = "http"
                  THEN /\ last'.op = "discoverStart"
                       /\ \E t \in 1..MaxTasks :
                             /\ tasks[t].kind = "idle"
                             /\ tasks'[t].kind = "discover"
                             /\ tasks'[t].sid = s
                  ELSE last'.op = "discover" /\ last'.outcome = "unsupported"
       /\ \A id \in CallToolIds, in \in CallInputs :
            (/\ ExecuteMCPToolStart(id, in)
             /\ MapHas(tools, id)
             /\ MapGet(tools, id).serverId \in DOMAIN servers
             /\ servers[MapGet(tools, id).serverId].enabled = FALSE
             /\ servers[MapGet(tools, id).serverId].connectionType = "http")
               => last'.op = "executeStart" /\ last'.sent
       /\ \A i \in 1..Len(tools'), c \in Channels :
            (/\ tools'[i].serverId \in DOMAIN servers'
             /\ servers'[tools'[i].serverId].enabled = FALSE)
               => \E j \in 1..Len(getToolsForChannel(tools', c)) :
                     getToolsForChannel(tools', c)[j] = tools'[i]]_vars

\* a tools/call request has just been sent for a tool whose provider is
\* stored and not enabled
C29_Witness ==
    /\ last.op = "executeStart"
    /\ last.sent
    /\ MapHas(tools, last.id)
    /\ MapGet(tools, last.id).serverId \in DOMAIN servers
    /\ servers[MapGet(tools, last.id).serverId].enabled = FALSE

\* C30: in the turn a processMessage call leaves, the record of the
\* built-in file-system tool is a success whose input carries an action
\* among read, write and list, and the record of the built-in git tool is a
\* failure with the unsupported-action error and an empty input; every
\* selected tool has its record, so every message that selects git yields
\* the failing git record.
C30_FileSystemSucceedsGitFails ==
    (turn # None /\ ~turn.selectThrew) =>
       /\ Len(turn.toolExecutions) = Len(turn.relevantTools)
       /\ \A k \in 1..Len(turn.relevantTools) :
             LET tool == turn.relevantTools[k]
                 execution == turn.toolExecutions[k]
             IN
             /\ execution.toolId = tool.id
             /\ (tool.id = "file-system" /\ tool.name = "file-system")
                   => /\ execution.success
                      /\ execution.input.action \in {"read", "write", "list"}
             /\ (tool.id = "git" /\ tool.name = "git")
                   => /\ ~execution.success
                      /\ execution.error = "Unsupported git action"
                      /\ execution.input = << >>

\* a turn selected both built-in tools: the file-system record succeeded
\* and the git record failed
C30_Witness ==
    /\ turn # None
    /\ ~turn.selectThrew
    /\ \E k \in 1..Len(turn.toolExecutions) :
          /\ turn.toolExecutions[k].toolId = "file-system"
          /\ turn.toolExecutions[k].success
          /\ turn.toolExecutions[k].input.action = "list"
    /\ \E k \in 1..Len(turn.toolExecutions) :
          /\ turn.toolExecutions[k].toolId = "git"
          /\ ~turn.toolExecutions[k].success

====
